---- MODULE Spec2Model ----
(***************************************************************************)
(* A model of corn-grader's app.py: the progress store, the background job *)
(* runner (process_image_async), the polling endpoint (get_progress), the  *)
(* compressor (compress_image), the suppressor (non_max_suppression, iou)  *)
(* and the grader (classify_grade).                                        *)
(*                                                                         *)
(* Threads are interleaved at the granularity of one access to the shared  *)
(* dictionary progress_store: every action below contains at most one     *)
(* read or write of it, together with the thread-local computation that    *)
(* precedes or follows that access.                                        *)
(*                                                                         *)
(* Numbers.  Python floats are represented by integers:                    *)
(*   - percentages in units of 1/100000 percent;                           *)
(*   - box coordinates in units of 1/8 pixel, rounded as floats are, with  *)
(*     a narrower significand (see "Floating point" below);                *)
(*   - confidences in percent; encoded sizes and budgets in whole MB.      *)
(***************************************************************************)
EXTENDS Integers, Sequences, FiniteSets, TLC

VARIABLES
    progress_store, \* the dict progress_store: job id -> entry
    handed,         \* ids that analyze has returned to a client
    job,            \* per job id: the runner thread's position and locals
    frame,          \* per job id: the activation of compress_image it runs
    poll,           \* per request thread: get_progress's position and locals
    delivered,      \* per job id: number of polls answered with status completed
    grader,         \* the grading computation checked on its own
    suppressor      \* the suppression computation checked on its own

vars ==
    <<progress_store, handed, job, frame, poll, delivered, grader, suppressor>>

----------------------------------------------------------------------------
(* Values *)

JobIds == {"j1"}
Pollers == {"p1", "p2"}

\* Python's None, and a value that is present.
None == <<>>
Some(v) == <<v>>
Val(o) == o[1]

Max(a, b) == IF a >= b THEN a ELSE b
Min(a, b) == IF a <= b THEN a ELSE b

----------------------------------------------------------------------------
(* The dictionary progress_store *)

EmptyStore == [i \in {} |-> None]

\* progress_id in progress_store
Has(store, id) == id \in DOMAIN store

\* progress_store[id] = entry
Put(store, id, entry) ==
    [i \in (DOMAIN store) \cup {id} |-> IF i = id THEN entry ELSE store[i]]

\* progress_store[id][field] = value   (the entry exists)
SetField(store, id, field, value) == [store EXCEPT ![id][field] = value]

\* del progress_store[id]   (the entry exists)
Delete(store, id) == [i \in (DOMAIN store) \ {id} |-> store[i]]

\* The entry process_image_async creates.
NewEntry ==
    [progress |-> 0, status |-> "processing", result |-> None, error |-> None]

----------------------------------------------------------------------------
(* Floating point.  Coordinates, areas and quotients are Python floats:    *)
(* binary floating point in which every operation yields the representable *)
(* number nearest to the exact result, a tie going to the even significand.*)
(* The model keeps that rule with a significand of FloatBits bits (a       *)
(* double has 53), so that rounding shows at the scale of a few pixels.    *)
(* A length is a whole number of 1/Grid pixels, an area of 1/Grid^2.       *)

FloatBits == 6

\* One pixel in the unit that represents a length (1/8 pixel).
Grid == 8
Px(n) == n * Grid

Abs(n) == IF n < 0 THEN -n ELSE n

RECURSIVE Pow2(_)
Pow2(k) == IF k = 0 THEN 1 ELSE 2 * Pow2(k - 1)

\* The number of low bits of n >= 0 that a significand of FloatBits bits
\* cannot hold.
RECURSIVE Excess(_)
Excess(n) == IF n < Pow2(FloatBits) THEN 0 ELSE 1 + Excess(n \div 2)

\* The float nearest to the exact value n (round to nearest, ties to even).
Fl(n) ==
    LET ulp == Pow2(Excess(Abs(n)))
        m == Abs(n) \div ulp
        r == Abs(n) % ulp
        v == (IF 2 * r > ulp \/ (2 * r = ulp /\ m % 2 = 1) THEN m + 1 ELSE m) * ulp
    IN  IF n < 0 THEN -v ELSE v

\* a + b, a - b and a * b of two floats.
FAdd(a, b) == Fl(a + b)
FSub(a, b) == Fl(a - b)
FMul(a, b) == Fl(a * b)

\* a / 2 of a float: exact.
Half(a) == a \div 2

\* The least k with a * 2^k >= lim, for a > 0.
RECURSIVE Scale(_, _)
Scale(a, lim) == IF a >= lim THEN 0 ELSE 1 + Scale(2 * a, lim)

\* a / b of two floats a >= 0 and b > 0, as the fraction num / den, den a
\* power of two: the quotient is taken to FloatBits + 2 bits and a sticky
\* bit, then rounded.
FDiv(a, b) ==
    IF a = 0 THEN [num |-> 0, den |-> 1]
    ELSE LET k == Scale(a, b * Pow2(FloatBits + 1))
             q == (a * Pow2(k)) \div b
             sticky == IF (a * Pow2(k)) % b = 0 THEN 0 ELSE 1
         IN  [num |-> Fl(2 * q + sticky), den |-> Pow2(k + 1)]

----------------------------------------------------------------------------
(* Geometry and the suppressor *)

\* iou_threshold=0.3, the float nearest to IouThresholdNum / IouThresholdDen.
IouThresholdNum == 3
IouThresholdDen == 10

\* Lines 44-48: a prediction in centre form to the tuple
\* (x0, y0, x1, y1, confidence, class).
Corner(pred) ==
    << FSub(pred.x, Half(pred.width)), FSub(pred.y, Half(pred.height)),
       FAdd(pred.x, Half(pred.width)), FAdd(pred.y, Half(pred.height)),
       pred.confidence, pred.class >>

\* Lines 59-66: a kept tuple back to centre form.
Centre(b) ==
    [x |-> Half(FAdd(b[1], b[3])), y |-> Half(FAdd(b[2], b[4])),
     width |-> FSub(b[3], b[1]), height |-> FSub(b[4], b[2]),
     confidence |-> b[5], class |-> b[6]]

\* Lines 69-73.
InterArea(boxA, boxB) ==
    FMul(Max(0, FSub(Min(boxA[3], boxB[3]), Max(boxA[1], boxB[1]))),
         Max(0, FSub(Min(boxA[4], boxB[4]), Max(boxA[2], boxB[2]))))

\* Lines 74-75.
BoxArea(box) == FMul(FSub(box[3], box[1]), FSub(box[4], box[2]))

\* Lines 68-76.  The quotient is the fraction num / den; ok = FALSE is the
\* ZeroDivisionError that dividing by float(0) raises.
iou(boxA, boxB) ==
    LET interArea == InterArea(boxA, boxB)
        union == FSub(FAdd(BoxArea(boxA), BoxArea(boxB)), interArea)
        q == IF union = 0 THEN [num |-> 0, den |-> 1] ELSE FDiv(interArea, union)
    IN  [ok |-> union # 0, num |-> q.num, den |-> q.den]

\* Line 57: iou(box, chosen) < iou_threshold, for a quotient that exists and
\* the threshold tnum / tden, both with a power of two as denominator.
BelowThreshold(r, tnum, tden) ==
    LET g == Min(r.den, tden)
    IN  r.num * (tden \div g) < tnum * (r.den \div g)

\* Line 50: sorted(boxes, key=confidence, reverse=True); the sort is stable.
RECURSIVE InsertByConfidence(_, _)
InsertByConfidence(sorted, b) ==
    IF sorted = <<>> THEN <<b>>
    ELSE IF Head(sorted)[5] >= b[5]
         THEN <<Head(sorted)>> \o InsertByConfidence(Tail(sorted), b)
         ELSE <<b>> \o sorted

RECURSIVE SortByConfidence(_)
SortByConfidence(boxes) ==
    IF boxes = <<>> THEN <<>>
    ELSE InsertByConfidence(SortByConfidence(SubSeq(boxes, 1, Len(boxes) - 1)),
                            boxes[Len(boxes)])

\* Lines 53-57: the greedy loop.  ok = FALSE when an iou raised.
RECURSIVE SuppressLoop(_, _, _, _)
SuppressLoop(boxes, keep, tnum, tden) ==
    IF boxes = <<>> THEN [ok |-> TRUE, keep |-> keep]
    ELSE LET chosen == Head(boxes)
             rest == Tail(boxes)
         IN  IF \E i \in 1..Len(rest) : ~iou(rest[i], chosen).ok
             THEN [ok |-> FALSE, keep |-> <<>>]
             ELSE SuppressLoop(
                    SelectSeq(rest,
                      LAMBDA box : BelowThreshold(iou(box, chosen), tnum, tden)),
                    Append(keep, chosen), tnum, tden)

\* Lines 41-66, for the threshold that is the float nearest to tnum / tden.
\* ok = FALSE when the call raised ZeroDivisionError.
non_max_suppression(predictions, tnum, tden) ==
    LET boxes == [i \in 1..Len(predictions) |-> Corner(predictions[i])]
        iou_threshold == FDiv(tnum, tden)
        out == SuppressLoop(SortByConfidence(boxes), <<>>,
                            iou_threshold.num, iou_threshold.den)
    IN  [ok |-> out.ok,
         predictions |-> [i \in 1..Len(out.keep) |-> Centre(out.keep[i])]]

----------------------------------------------------------------------------
(* The grader *)

\* One percent in the unit that represents a percentage (1/100000 percent).
PctUnit == 100000

\* A table whose first two rows have their damage percentages exchanged.
USDA_GRADES_Swapped ==
    << <<"U.S. No. 1",  5 * PctUnit, 1,  PctUnit \div 10, 0>>,
       <<"U.S. No. 2",  3 * PctUnit, 2,  PctUnit \div 5,  0>>,
       <<"U.S. No. 3",  7 * PctUnit, 3,  PctUnit \div 2,  0>>,
       <<"U.S. No. 4", 10 * PctUnit, 5,  PctUnit,         0>>,
       <<"U.S. No. 5", 15 * PctUnit, 7,  3 * PctUnit,     1>> >>

\* Lines 33-39: (name, max damage %, max damage kernels, max heat %, max
\* heat kernels).
USDA_GRADES ==
    << <<"U.S. No. 1",  3 * PctUnit, 1,  PctUnit \div 10, 0>>,
       <<"U.S. No. 2",  5 * PctUnit, 2,  PctUnit \div 5,  0>>,
       <<"U.S. No. 3",  7 * PctUnit, 3,  PctUnit \div 2,  0>>,
       <<"U.S. No. 4", 10 * PctUnit, 5,  PctUnit,         0>>,
       <<"U.S. No. 5", 15 * PctUnit, 7,  3 * PctUnit,     1>> >>

\* Lines 80-82: the first rule from index i on that the counts satisfy.
RECURSIVE FirstByCount(_, _, _, _)
FirstByCount(table, i, damage_kernels, heat_kernels) ==
    IF i > Len(table) THEN "Sample Grade"
    ELSE IF damage_kernels <= table[i][3] /\ heat_kernels <= table[i][5]
         THEN table[i][1]
         ELSE FirstByCount(table, i + 1, damage_kernels, heat_kernels)

\* Lines 84-86: the first rule from index i on that the percentages satisfy.
RECURSIVE FirstByPct(_, _, _, _)
FirstByPct(table, i, damage_pct, heat_pct) ==
    IF i > Len(table) THEN "Sample Grade"
    ELSE IF damage_pct <= table[i][2] /\ heat_pct <= table[i][4]
         THEN table[i][1]
         ELSE FirstByPct(table, i + 1, damage_pct, heat_pct)

\* A small-sample test that is off by one.
SmallSampleInclusive(total_kernels) == total_kernels <= 100

\* Line 79: the sample is graded by kernel counts, not by percentages.
SmallSample(total_kernels) == total_kernels < 100

\* A grader that compares the percentages whatever the sample size.
classify_by_pct(damage_pct, damage_kernels, heat_pct, heat_kernels, total_kernels) ==
    FirstByPct(USDA_GRADES, 1, damage_pct, heat_pct)

\* Lines 78-87.
classify_grade(damage_pct, damage_kernels, heat_pct, heat_kernels, total_kernels) ==
    IF SmallSample(total_kernels)
    THEN FirstByCount(USDA_GRADES, 1, damage_kernels, heat_kernels)
    ELSE FirstByPct(USDA_GRADES, 1, damage_pct, heat_pct)

\* Lines 186, 188: (k / n) * 100 if n else 0, rounded up to the unit, so that
\* comparing with a threshold (a whole number of units) decides as the float
\* does.  Python computes (7/100)*100 as 7.000000000000001, as it does for
\* every k/n equal to 7/100: that product lies above 7.0.  (For n up to 1000
\* no other quotient compares with a threshold of the table otherwise than
\* the exact value does.)
Percent(k, n) ==
    IF n = 0 THEN 0
    ELSE (k * 100 * PctUnit + n - 1) \div n + (IF 100 * k = 7 * n THEN 1 ELSE 0)

\* Lines 199-200: round(pct, 2): to the nearest 1/100 percent, a tie to the
\* even one.  (This is Python's result for every Percent(k, n) with n < 160.)
Round2(pct) ==
    LET step == PctUnit \div 100
        q == pct \div step
        r == pct % step
    IN  IF 2 * r > step \/ (2 * r = step /\ q % 2 = 1)
        THEN (q + 1) * step ELSE q * step

\* Lines 160, 182: the class labels the grading stage names.
NormalClass == "Normal"
HeatDamageClasses == {"Heat damage"}

\* Lines 167-170: counts[label] = counts.get(label, 0) + 1 over the predictions.
Tally(predictions) ==
    [c \in {predictions[i].class : i \in 1..Len(predictions)} |->
        Cardinality({i \in 1..Len(predictions) : predictions[i].class = c})]

\* counts.get(label, 0)
CountOf(counts, label) == IF label \in DOMAIN counts THEN counts[label] ELSE 0

\* sum(counts.get(c, 0) for c in labels)
RECURSIVE SumOver(_, _)
SumOver(counts, labels) ==
    IF labels = {} THEN 0
    ELSE LET c == CHOOSE x \in labels : TRUE
         IN  CountOf(counts, c) + SumOver(counts, labels \ {c})

\* Lines 182-204: the statistics, the grade and result_data (without the
\* filename and the raw response, which the runner adds).
GradeStage(counts) ==
    LET normal_count == CountOf(counts, NormalClass)
        total_kernels == SumOver(counts, DOMAIN counts)
        damage_kernels == total_kernels - normal_count
        total_damage_pct == Percent(damage_kernels, total_kernels)
        heat_damage_count == SumOver(counts, HeatDamageClasses)
        heat_damage_pct == Percent(heat_damage_count, total_kernels)
        grade == classify_grade(total_damage_pct, damage_kernels,
                                heat_damage_pct, heat_damage_count, total_kernels)
    IN  [counts |-> counts,
         grade |-> grade,
         total_damage_pct |-> Round2(total_damage_pct),
         heat_damage_pct |-> Round2(heat_damage_pct),
         total_kernels |-> total_kernels]

----------------------------------------------------------------------------
(* Exceptions: the type, the HTTP status an HTTPCallErrorError carries (0 for *)
(* the other types) and the message str(e) gives.                            *)

Exception(type, status_code, msg) ==
    [type |-> type, status_code |-> status_code, msg |-> msg]

\* str(e)
Str(e) == e.msg

ImageOpenError == Exception("UnidentifiedImageError", 0, "cannot identify image file")
ImageWriteError == Exception("OSError", 0, "No space left on device")
PayloadTooLarge == Exception("HTTPCallErrorError", 413, "Request Entity Too Large")
GatewayError == Exception("HTTPCallErrorError", 500, "Internal Server Error")
ConnectionFailure == Exception("ConnectionError", 0, "Connection refused")
ZeroDivision == Exception("ZeroDivisionError", 0, "float division by zero")
KeyErrorOf(id) == Exception("KeyError", 0, id)

----------------------------------------------------------------------------
(* The compressor: one activation of compress_image per frame slot *)

\* Largest encoded size the encoder is taken to produce, in MB.
MaxSizeMB == 6
Sizes == 1..MaxSizeMB

\* Line 110: range(3).
MaxAttempts == 3
\* Lines 116, 121: the quality floor and the step.
QualityFloor == 20
QualityStep == 20
\* Line 89: the defaults max_size_mb=5, quality=85.
DefaultMaxSizeMB == 5
DefaultQuality == 85
\* Line 136: the budget of the retry.
RetryMaxSizeMB == 2

NoFrame ==
    [pc |-> "off", max_size_mb |-> 0, quality |-> 0, progress_id |-> None,
     attempt |-> 0, size_mb |-> None, persisted |-> FALSE, ret |-> None,
     exc |-> None,
     encodes |-> 0]  \* history: img.save calls into the buffer so far

\* Line 89: the activation a call compress_image(path, max_size_mb, quality,
\* progress_id) starts with.
CallCompress(max_size_mb, quality, progress_id) ==
    [NoFrame EXCEPT !.pc = "l95", !.max_size_mb = max_size_mb,
                    !.quality = quality, !.progress_id = progress_id]

\* Line 91: int((step / total) * 30) + 10.
ProgressOf(step, total) == (step * 30) \div total + 10

\* Lines 90-93: the store after update_progress(step, total).
update_progress(store, progress_id, step, total) ==
    IF progress_id # None /\ Has(store, Val(progress_id))
    THEN SetField(store, Val(progress_id), "progress", ProgressOf(step, total))
    ELSE store

\* Line 116: the attempt is accepted.
Accepted(size_mb, max_size_mb, quality) ==
    size_mb <= max_size_mb \/ quality <= QualityFloor

\* Line 121.
LowerQuality(quality) == Max(QualityFloor, quality - QualityStep)

\* Lines 95-99: open and convert the image (which may raise), then
\* update_progress(1, 5).
CompressOpen(c) ==
    /\ frame[c].pc = "l95"
    /\ \/ /\ frame' = [frame EXCEPT ![c].pc = "raised",
                                    ![c].exc = Some(ImageOpenError)]
          /\ UNCHANGED progress_store
       \/ /\ frame' = [frame EXCEPT ![c].pc = "l104"]
          /\ progress_store' =
                update_progress(progress_store, frame[c].progress_id, 1, 5)
    /\ UNCHANGED <<handed, job, poll, delivered, grader, suppressor>>

\* Lines 101-108: an image above 1920*1920 pixels is resized once, and
\* update_progress(2, 5) follows the resize.
CompressResize(c) ==
    /\ frame[c].pc = "l104"
    /\ frame' = [frame EXCEPT ![c].pc = "l110"]
    /\ \E large \in BOOLEAN :
          progress_store' =
             IF large
             THEN update_progress(progress_store, frame[c].progress_id, 2, 5)
             ELSE progress_store
    /\ UNCHANGED <<handed, job, poll, delivered, grader, suppressor>>

\* Lines 110-116, 121: one pass of the loop: encode at the current quality,
\* update_progress(3 + attempt, 5), then accept the attempt or lower the
\* quality for the next one.
CompressAttempt(c) ==
    /\ frame[c].pc = "l110"
    /\ frame[c].attempt < MaxAttempts
    /\ \E size_mb \in Sizes :
          frame' =
             IF Accepted(size_mb, frame[c].max_size_mb, frame[c].quality)
             THEN [frame EXCEPT ![c].pc = "l117", ![c].size_mb = Some(size_mb),
                                ![c].encodes = @ + 1]
             ELSE [frame EXCEPT ![c].size_mb = Some(size_mb),
                                ![c].encodes = @ + 1,
                                ![c].quality = LowerQuality(frame[c].quality),
                                ![c].attempt = frame[c].attempt + 1]
    /\ progress_store' =
          update_progress(progress_store, frame[c].progress_id,
                          3 + frame[c].attempt, 5)
    /\ UNCHANGED <<handed, job, poll, delivered, grader, suppressor>>

\* Line 110 with range(3) exhausted: the function body ends and the call
\* returns None, with nothing written to image_path.
CompressLoopExit(c) ==
    /\ frame[c].pc = "l110"
    /\ frame[c].attempt >= MaxAttempts
    /\ frame' = [frame EXCEPT ![c].pc = "ret", ![c].ret = None]
    /\ UNCHANGED <<progress_store, handed, job, poll, delivered, grader, suppressor>>

\* Lines 117-119: write the buffer to image_path (which may raise) and
\* return size_mb.
CompressPersist(c) ==
    /\ frame[c].pc = "l117"
    /\ \/ frame' = [frame EXCEPT ![c].pc = "raised",
                                 ![c].exc = Some(ImageWriteError)]
       \/ frame' = [frame EXCEPT ![c].pc = "ret", ![c].persisted = TRUE,
                                 ![c].ret = frame[c].size_mb]
    /\ UNCHANGED <<progress_store, handed, job, poll, delivered, grader, suppressor>>

Compress(c) ==
    \/ CompressOpen(c)
    \/ CompressResize(c)
    \/ CompressAttempt(c)
    \/ CompressLoopExit(c)
    \/ CompressPersist(c)

----------------------------------------------------------------------------
(* The inference gateway: what CLIENT.infer may answer *)

Pred(x, y, width, height, confidence, class) ==
    [x |-> x, y |-> y, width |-> width, height |-> height,
     confidence |-> confidence, class |-> class]

\* Two kernels the detector saw twice (heavily overlapping boxes of
\* different classes) and a third one apart from them.
SampleMixed ==
    << Pred(Px(10), Px(10), Px(10), Px(10), 90, "Normal"),
       Pred(Px(11), Px(10), Px(10), Px(10), 80, "Mold damage"),
       Pred(Px(40), Px(40), Px(10), Px(10), 70, "Heat damage") >>

\* Two boxes of zero width and height at the same point.
SampleDegenerate ==
    << Pred(Px(5), Px(5), 0, 0, 50, "Normal"),
       Pred(Px(5), Px(5), 0, 0, 40, "Normal") >>

\* No kernel detected.
SampleEmpty == <<>>

Responses ==
    {[predictions |-> ps] : ps \in {SampleMixed, SampleDegenerate, SampleEmpty}}

\* Line 132, 138: an answer, or the exception the call raises.
InferOutcomes ==
    {[ok |-> TRUE, value |-> r] : r \in Responses}
      \cup {[ok |-> FALSE, value |-> e] :
               e \in {PayloadTooLarge, GatewayError, ConnectionFailure}}

\* Line 134: the except clause catches the exception.
IsHTTPCallError(e) == e.type = "HTTPCallErrorError"

\* Lines 135, 141: e.status_code == 413.
IsPayloadTooLarge(e) == e.status_code = 413

\* A retry on every HTTP error of the first call.
RetryOnAnyStatus(e) == TRUE

\* Line 135: the exception of the first call is answered by a retry.
RetryOn(e) == IsPayloadTooLarge(e)

\* Line 142.
TooLargeMessage == "Image too large after compression"

----------------------------------------------------------------------------
(* The job runner: analyze starts one thread per job id, which runs        *)
(* process_image_async.  pc names the line the thread executes next.       *)

NoJob ==
    [pc |-> "idle", raw_result |-> None, predictions |-> None,
     result_data |-> None, e |-> None,
     \* history, not program state:
     calls |-> 0,           \* calls of CLIENT.infer so far
     first_call |-> "none", \* how the first call ended: ok, 413 or other
     budgets |-> <<>>,      \* max_size_mb of each compress_image call so far
     stages |-> <<>>,       \* the stages so far: "compress" when a call of
                            \* compress_image has returned, "infer" when the
                            \* gateway is called, "suppress" when
                            \* non_max_suppression is called, "grade" when
                            \* classify_grade has returned, "annotate" when
                            \* the annotated image is written, "persist"
                            \* when status completed is written
     failure |-> None]      \* the stage that failed, its exception and the
                            \* progress the entry showed then

Filename(j) == j \o ".jpg"

\* The progress the entry of job j shows (-1 without an entry).
ProgressNow(j) ==
    IF Has(progress_store, j) THEN progress_store[j].progress ELSE -1

\* An exception e raised at `stage` reaches the handler of line 210.
Raised(j, stage, e) ==
    [job[j] EXCEPT !.pc = "l211", !.e = Some(e),
                   !.failure = Some([stage |-> stage, exc |-> e,
                                     progress |-> ProgressNow(j)])]

\* progress_store[j][field] = value inside the try block, after which the
\* thread's state is `next`; a missing entry raises KeyError instead.
StoreWrite(j, stage, field, value, next) ==
    IF Has(progress_store, j)
    THEN /\ progress_store' = SetField(progress_store, j, field, value)
         /\ job' = [job EXCEPT ![j] = next]
    ELSE /\ progress_store' = progress_store
         /\ job' = [job EXCEPT ![j] = Raised(j, stage, KeyErrorOf(j))]

\* Lines 214-231: analyze generates the id, saves the upload and starts the
\* thread (for an upload it does not reject with 400).
AnalyzeStart(j) ==
    /\ job[j].pc = "idle"
    /\ job' = [job EXCEPT ![j].pc = "l125"]
    /\ UNCHANGED <<progress_store, handed, frame, poll, delivered, grader, suppressor>>

\* Line 233: analyze returns the id to the client.
AnalyzeReturn(j) ==
    /\ job[j].pc # "idle"
    /\ j \notin handed
    /\ handed' = handed \cup {j}
    /\ UNCHANGED <<progress_store, job, frame, poll, delivered, grader, suppressor>>

\* Line 125.
RunCreate(j) ==
    /\ job[j].pc = "l125"
    /\ progress_store' = Put(progress_store, j, NewEntry)
    /\ job' = [job EXCEPT ![j].pc = "l126"]
    /\ UNCHANGED <<handed, frame, poll, delivered, grader, suppressor>>

\* A runner that goes from progress 5 to the gateway without compressing.
RunProgress5NoCompress(j) ==
    /\ job[j].pc = "l126"
    /\ StoreWrite(j, "start", "progress", 5, [job[j] EXCEPT !.pc = "l132"])
    /\ UNCHANGED <<handed, frame, poll, delivered, grader, suppressor>>

\* Lines 126, 128: progress 5, then the call of compress_image.
RunProgress5(j) ==
    /\ job[j].pc = "l126"
    /\ StoreWrite(j, "start", "progress", 5,
                  [job[j] EXCEPT !.pc = "l128",
                                 !.budgets = Append(@, DefaultMaxSizeMB)])
    /\ frame' = [frame EXCEPT ![j] =
                    IF Has(progress_store, j)
                    THEN CallCompress(DefaultMaxSizeMB, DefaultQuality, Some(j))
                    ELSE NoFrame]
    /\ UNCHANGED <<handed, poll, delivered, grader, suppressor>>

\* Lines 128, 136: compress_image raised; the exception leaves the try block.
RunCompressRaised(j) ==
    /\ job[j].pc \in {"l128", "l136"}
    /\ frame[j].pc = "raised"
    /\ job' = [job EXCEPT ![j] = Raised(j, "compress", Val(frame[j].exc))]
    /\ frame' = [frame EXCEPT ![j] = NoFrame]
    /\ UNCHANGED <<progress_store, handed, poll, delivered, grader, suppressor>>

\* Line 129: compress_image returned (its value is dropped); progress 40.
RunCompressReturn(j) ==
    /\ job[j].pc = "l128"
    /\ frame[j].pc = "ret"
    /\ StoreWrite(j, "compress", "progress", 40,
                  [job[j] EXCEPT !.pc = "l132",
                                 !.stages = Append(@, "compress")])
    /\ frame' = [frame EXCEPT ![j] = NoFrame]
    /\ UNCHANGED <<handed, poll, delivered, grader, suppressor>>

\* Lines 131-136, 146-147: the first call of the gateway.  An answer sets
\* progress 70; HTTP 413 starts the second compression with the smaller
\* budget; any other exception leaves the try block.
RunInfer(j) ==
    /\ job[j].pc = "l132"
    /\ \E out \in InferOutcomes :
          LET called == [job[j] EXCEPT
                            !.calls = @ + 1,
                            !.stages = Append(@, "infer"),
                            !.first_call =
                               IF out.ok THEN "ok"
                               ELSE IF IsHTTPCallError(out.value)
                                       /\ IsPayloadTooLarge(out.value)
                                    THEN "413" ELSE "other"]
          IN  IF out.ok
              THEN /\ StoreWrite(j, "infer", "progress", 70,
                         [called EXCEPT !.pc = "l149",
                                        !.raw_result = Some(out.value)])
                   /\ UNCHANGED frame
              ELSE IF IsHTTPCallError(out.value) /\ RetryOn(out.value)
                   THEN /\ job' = [job EXCEPT ![j] =
                              [called EXCEPT !.pc = "l136",
                                  !.budgets = Append(@, RetryMaxSizeMB)]]
                        /\ frame' = [frame EXCEPT ![j] =
                              CallCompress(RetryMaxSizeMB, DefaultQuality, Some(j))]
                        /\ UNCHANGED progress_store
                   ELSE /\ job' = [job EXCEPT ![j] =
                              [Raised(j, "infer", out.value) EXCEPT
                                  !.calls = called.calls,
                                  !.stages = called.stages,
                                  !.first_call = called.first_call]]
                        /\ UNCHANGED <<progress_store, frame>>
    /\ UNCHANGED <<handed, poll, delivered, grader, suppressor>>

\* Lines 136-145: the second compression returned (its value is dropped) and
\* the gateway is called again.  An answer sets progress 70; a second HTTP
\* 413 goes to line 142; any other exception leaves the try block.
RunInferRetry(j) ==
    /\ job[j].pc = "l136"
    /\ frame[j].pc = "ret"
    /\ frame' = [frame EXCEPT ![j] = NoFrame]
    /\ \E out \in InferOutcomes :
          LET called == [job[j] EXCEPT
                            !.calls = @ + 1,
                            !.stages = @ \o <<"compress", "infer">>]
          IN  IF out.ok
              THEN StoreWrite(j, "infer", "progress", 70,
                      [called EXCEPT !.pc = "l149",
                                     !.raw_result = Some(out.value)])
              ELSE IF IsHTTPCallError(out.value) /\ IsPayloadTooLarge(out.value)
                   THEN /\ job' = [job EXCEPT ![j] =
                              [called EXCEPT !.pc = "l142",
                                  !.failure = Some([stage |-> "too_large",
                                                    exc |-> out.value,
                                                    progress |-> ProgressNow(j)])]]
                        /\ UNCHANGED progress_store
                   ELSE /\ job' = [job EXCEPT ![j] =
                              [Raised(j, "infer", out.value) EXCEPT
                                  !.calls = called.calls,
                                  !.stages = called.stages]]
                        /\ UNCHANGED progress_store
    /\ UNCHANGED <<handed, poll, delivered, grader, suppressor>>

\* Line 142.
RunTooLarge(j) ==
    /\ job[j].pc = "l142"
    /\ StoreWrite(j, "too_large", "error", Some(TooLargeMessage),
                  [job[j] EXCEPT !.pc = "l143"])
    /\ UNCHANGED <<handed, frame, poll, delivered, grader, suppressor>>

\* Lines 143-144: status error, and the thread returns.
RunTooLargeStatus(j) ==
    /\ job[j].pc = "l143"
    /\ StoreWrite(j, "too_large", "status", "error",
                  [job[j] EXCEPT !.pc = "done"])
    /\ UNCHANGED <<handed, frame, poll, delivered, grader, suppressor>>

\* Line 150: non_max_suppression(result['predictions']), with the default
\* threshold, for each answer of the gateway.
Suppressed ==
    [result \in Responses |->
        non_max_suppression(result.predictions,
                            IouThresholdNum, IouThresholdDen)]

\* Lines 149-151: suppression (which raises when an iou divides by zero),
\* then progress 80.
RunSuppress(j) ==
    /\ job[j].pc = "l149"
    /\ LET kept == Suppressed[Val(job[j].raw_result)]
       IN  IF kept.ok
           THEN StoreWrite(j, "suppress", "progress", 80,
                   [job[j] EXCEPT !.pc = "l153",
                                  !.stages = Append(@, "suppress"),
                                  !.predictions = Some(kept.predictions)])
           ELSE /\ job' = [job EXCEPT ![j] =
                      [Raised(j, "suppress", ZeroDivision) EXCEPT
                          !.stages = Append(@, "suppress")]]
                /\ UNCHANGED progress_store
    /\ UNCHANGED <<handed, frame, poll, delivered, grader, suppressor>>

\* Lines 196-204.
ResultData(g, filename, raw_result) ==
    [counts |-> g.counts, grade |-> g.grade,
     total_damage_pct |-> g.total_damage_pct,
     heat_damage_pct |-> g.heat_damage_pct,
     total_kernels |-> g.total_kernels,
     filename |-> filename, raw_result |-> raw_result]

\* Lines 153-204: open the image (which may raise), draw and count the
\* predictions, grade, save the annotated image (which may raise), progress
\* 90, build result_data.
RunAnnotate(j) ==
    /\ job[j].pc = "l153"
    /\ \/ /\ job' = [job EXCEPT ![j] = Raised(j, "annotate", ImageOpenError)]
          /\ UNCHANGED progress_store
       \/ /\ job' = [job EXCEPT ![j] =
                [Raised(j, "annotate", ImageWriteError) EXCEPT
                    !.stages = Append(@, "grade")]]
          /\ UNCHANGED progress_store
       \/ StoreWrite(j, "annotate", "progress", 90,
             [job[j] EXCEPT
                 !.pc = "l206",
                 !.stages = @ \o <<"grade", "annotate">>,
                 !.result_data =
                    Some(ResultData(GradeStage(Tally(Val(job[j].predictions))),
                                    Filename(j), Val(job[j].raw_result)))])
    /\ UNCHANGED <<handed, frame, poll, delivered, grader, suppressor>>

\* A runner that marks the job completed where line 206 stores the result.
RunResultStatusFirst(j) ==
    /\ job[j].pc = "l206"
    /\ StoreWrite(j, "persist", "status", "completed",
                  [job[j] EXCEPT !.pc = "l207"])
    /\ UNCHANGED <<handed, frame, poll, delivered, grader, suppressor>>

\* Line 206.
RunResult(j) ==
    /\ job[j].pc = "l206"
    /\ StoreWrite(j, "persist", "result", job[j].result_data,
                  [job[j] EXCEPT !.pc = "l207"])
    /\ UNCHANGED <<handed, frame, poll, delivered, grader, suppressor>>

\* Line 207.
RunProgress100(j) ==
    /\ job[j].pc = "l207"
    /\ StoreWrite(j, "persist", "progress", 100, [job[j] EXCEPT !.pc = "l208"])
    /\ UNCHANGED <<handed, frame, poll, delivered, grader, suppressor>>

\* Line 208: status completed; the thread ends.
RunCompleted(j) ==
    /\ job[j].pc = "l208"
    /\ StoreWrite(j, "persist", "status", "completed",
                  [job[j] EXCEPT !.pc = "done",
                                 !.stages = Append(@, "persist")])
    /\ UNCHANGED <<handed, frame, poll, delivered, grader, suppressor>>

\* progress_store[j][field] = value inside the handler of line 210: a
\* missing entry raises KeyError out of the thread, which dies.
HandlerWrite(j, field, value, nextpc) ==
    IF Has(progress_store, j)
    THEN /\ progress_store' = SetField(progress_store, j, field, value)
         /\ job' = [job EXCEPT ![j].pc = nextpc]
    ELSE /\ progress_store' = progress_store
         /\ job' = [job EXCEPT ![j].pc = "died"]

\* A handler that records the exception's type instead of its message.
RecordedErrorType(e) == Some(e.type)

\* Line 211: the message the handler records for the exception e.
RecordedError(e) == Some(Str(e))

\* Line 211.
RunError(j) ==
    /\ job[j].pc = "l211"
    /\ HandlerWrite(j, "error", RecordedError(Val(job[j].e)), "l212")
    /\ UNCHANGED <<handed, frame, poll, delivered, grader, suppressor>>

\* A handler that ends without line 212.
RunErrorNoStatus(j) ==
    /\ job[j].pc = "l212"
    /\ job' = [job EXCEPT ![j].pc = "done"]
    /\ UNCHANGED <<progress_store, handed, frame, poll, delivered, grader,
                   suppressor>>

\* Line 212: status error; the thread ends.
RunErrorStatus(j) ==
    /\ job[j].pc = "l212"
    /\ HandlerWrite(j, "status", "error", "done")
    /\ UNCHANGED <<handed, frame, poll, delivered, grader, suppressor>>

Run(j) ==
    \/ RunCreate(j)
    \/ RunProgress5(j)
    \/ RunCompressRaised(j)
    \/ RunCompressReturn(j)
    \/ RunInfer(j)
    \/ RunInferRetry(j)
    \/ RunTooLarge(j)
    \/ RunTooLargeStatus(j)
    \/ RunSuppress(j)
    \/ RunAnnotate(j)
    \/ RunResult(j)
    \/ RunProgress100(j)
    \/ RunCompleted(j)
    \/ RunError(j)
    \/ RunErrorStatus(j)

----------------------------------------------------------------------------
(* The polling endpoint: one activation of get_progress per request thread. *)
(* pc names the line it executes next; r200, r404 and r500 are the response *)
(* it is about to send (r500: an exception left the view function).         *)

NoPoll ==
    [pc |-> "idle", id |-> None, data |-> None,
     \* history, not program state: what held when the request began
     began_delivered |-> 0,       \* completed answers already sent for the id
     began_status |-> "none"]     \* the entry's status ("absent" without one)

\* A removal that never happens.
ShouldDeleteNever(data, store, id) == FALSE

\* A removal on every terminal status.
ShouldDeleteTerminal(data, store, id) ==
    data.status \in {"completed", "error"} /\ Has(store, id)

\* A removal on every read, whatever the status.
ShouldDeleteAny(data, store, id) == Has(store, id)

\* Line 242: the entry is removed after this read.
ShouldDelete(data, store, id) == data.status = "completed" /\ Has(store, id)

\* Lines 237-238: the membership test; 404 for an id the store does not hold.
PollCheck(p, id) ==
    /\ poll[p].pc = "idle"
    /\ id \in handed
    /\ poll' = [poll EXCEPT ![p] =
          [NoPoll EXCEPT
              !.pc = IF Has(progress_store, id) THEN "l240" ELSE "r404",
              !.id = Some(id),
              !.began_delivered = delivered[id],
              !.began_status = IF Has(progress_store, id)
                               THEN progress_store[id].status ELSE "absent"]]
    /\ UNCHANGED <<progress_store, handed, job, frame, delivered, grader, suppressor>>

\* Line 240: data = progress_store[progress_id].copy(); KeyError without the
\* entry.
PollCopy(p) ==
    /\ poll[p].pc = "l240"
    /\ poll' = [poll EXCEPT ![p] =
          IF Has(progress_store, Val(poll[p].id))
          THEN [poll[p] EXCEPT !.pc = "l242",
                               !.data = Some(progress_store[Val(poll[p].id)])]
          ELSE [poll[p] EXCEPT !.pc = "r500"]]
    /\ UNCHANGED <<progress_store, handed, job, frame, delivered, grader, suppressor>>

\* Line 242: the test that guards the removal.
PollTest(p) ==
    /\ poll[p].pc = "l242"
    /\ poll' = [poll EXCEPT ![p].pc =
          IF ShouldDelete(Val(poll[p].data), progress_store, Val(poll[p].id))
          THEN "l243" ELSE "r200"]
    /\ UNCHANGED <<progress_store, handed, job, frame, delivered, grader, suppressor>>

\* Line 243: del progress_store[progress_id]; KeyError without the entry.
PollDelete(p) ==
    /\ poll[p].pc = "l243"
    /\ IF Has(progress_store, Val(poll[p].id))
       THEN /\ progress_store' = Delete(progress_store, Val(poll[p].id))
            /\ poll' = [poll EXCEPT ![p].pc = "r200"]
       ELSE /\ progress_store' = progress_store
            /\ poll' = [poll EXCEPT ![p].pc = "r500"]
    /\ UNCHANGED <<handed, job, frame, delivered, grader, suppressor>>

\* Lines 238, 245: the response is sent and the request thread is free again.
PollReturn(p) ==
    /\ poll[p].pc \in {"r200", "r404", "r500"}
    /\ delivered' =
          IF poll[p].pc = "r200" /\ Val(poll[p].data).status = "completed"
          THEN [delivered EXCEPT ![Val(poll[p].id)] = @ + 1]
          ELSE delivered
    /\ poll' = [poll EXCEPT ![p] = NoPoll]
    /\ UNCHANGED <<progress_store, handed, job, frame, grader, suppressor>>

Poll(p) ==
    \/ \E id \in JobIds : PollCheck(p, id)
    \/ PollCopy(p)
    \/ PollTest(p)
    \/ PollDelete(p)
    \/ PollReturn(p)

----------------------------------------------------------------------------
(* The job system *)

NoGrader == [pc |-> "off"]
NoSuppressor == [pc |-> "off"]

Init ==
    /\ progress_store = EmptyStore
    /\ handed = {}
    /\ job = [j \in JobIds |-> NoJob]
    /\ frame = [j \in JobIds |-> NoFrame]
    /\ poll = [p \in Pollers |-> NoPoll]
    /\ delivered = [j \in JobIds |-> 0]
    /\ grader = NoGrader
    /\ suppressor = NoSuppressor

Next ==
    \/ \E j \in JobIds : AnalyzeStart(j)
    \/ \E j \in JobIds : AnalyzeReturn(j)
    \/ \E j \in JobIds : Run(j)
    \/ \E j \in JobIds : Compress(j)
    \/ \E p \in Pollers : Poll(p)

Spec == Init /\ [][Next]_vars

\* The job system under fair scheduling of each job's thread: a thread that
\* can take a step of process_image_async, or of the compress_image it has
\* called, eventually takes one.  Every call of the gateway and every image
\* operation is one step, which returns a value or raises.  Nothing is
\* assumed about analyze or about the pollers, which poll when they like.
SpecFair == Spec /\ \A j \in JobIds : WF_vars(Run(j) \/ Compress(j))

----------------------------------------------------------------------------
(* compress_image on its own: every starting quality and budget of the      *)
(* sets below, no progress sink, every sequence of encoded sizes.           *)

Qualities == {15, 20, 35, 60, 61, 85, 95}
Budgets == Sizes

InitCompress ==
    /\ progress_store = EmptyStore
    /\ handed = {}
    /\ job = [j \in JobIds |-> NoJob]
    /\ frame \in [JobIds -> {CallCompress(m, q, None) :
                                m \in Budgets, q \in Qualities}]
    /\ poll = [p \in Pollers |-> NoPoll]
    /\ delivered = [j \in JobIds |-> 0]
    /\ grader = NoGrader
    /\ suppressor = NoSuppressor

NextCompress == \E c \in JobIds : Compress(c)

SpecCompress == InitCompress /\ [][NextCompress]_vars

----------------------------------------------------------------------------
(* The grader on its own: classify_grade applied to sample statistics, and  *)
(* the grading stage of the runner (lines 167-204) applied to a list of     *)
(* predictions as they are after suppression.                               *)

\* Bounds of the inputs drawn.
MaxDamageKernels == 8
MaxHeatKernels == 2
MaxMoldCount == 7

\* Percentages on, just above and between the thresholds of the table.
DamagePcts ==
    {0, 3 * PctUnit - 1, 3 * PctUnit, 4 * PctUnit, 5 * PctUnit, 5 * PctUnit + 1,
     7 * PctUnit, 7 * PctUnit + 1, 10 * PctUnit, 15 * PctUnit, 15 * PctUnit + 1}
HeatPcts ==
    {0, PctUnit \div 10, PctUnit \div 10 + 1, PctUnit \div 5, PctUnit \div 2,
     PctUnit, 3 * PctUnit, 3 * PctUnit + 1}
Totals == {0, 50, 99, 100, 200}
NormalCounts == {0, 47, 93, 96, 186}

\* normal + mold + heat predictions on a row, none overlapping another.
KernelList(normal, mold, heat) ==
    [i \in 1..(normal + mold + heat) |->
        Pred(Px(20 * i), Px(10), Px(10), Px(10), 90,
             IF i <= normal THEN NormalClass
             ELSE IF i <= normal + mold THEN "Mold damage" ELSE "Heat damage")]

InitGrade ==
    /\ progress_store = EmptyStore
    /\ handed = {}
    /\ job = [j \in JobIds |-> NoJob]
    /\ frame = [j \in JobIds |-> NoFrame]
    /\ poll = [p \in Pollers |-> NoPoll]
    /\ delivered = [j \in JobIds |-> 0]
    /\ suppressor = NoSuppressor
    /\ \/ \E dp \in DamagePcts, dk \in 0..MaxDamageKernels, hp \in HeatPcts,
             hk \in 0..MaxHeatKernels, n \in Totals :
             grader = [pc |-> "stats", damage_pct |-> dp, damage_kernels |-> dk,
                       heat_pct |-> hp, heat_kernels |-> hk,
                       total_kernels |-> n, grade |-> None]
       \/ \E normal \in NormalCounts, mold \in 0..MaxMoldCount,
             heat \in 0..MaxHeatKernels :
             grader = [pc |-> "predictions",
                       predictions |-> KernelList(normal, mold, heat),
                       result |-> None]

\* classify_grade applied to the statistics drawn.
GradeStats ==
    /\ grader.pc = "stats"
    /\ grader' = [grader EXCEPT
          !.pc = "graded",
          !.grade = Some(classify_grade(grader.damage_pct, grader.damage_kernels,
                                        grader.heat_pct, grader.heat_kernels,
                                        grader.total_kernels))]
    /\ UNCHANGED <<progress_store, handed, job, frame, poll, delivered,
                   suppressor>>

\* Lines 167-204 applied to the predictions drawn.
GradePredictions ==
    /\ grader.pc = "predictions"
    /\ grader' = [grader EXCEPT
          !.pc = "tallied",
          !.result = Some(GradeStage(Tally(grader.predictions)))]
    /\ UNCHANGED <<progress_store, handed, job, frame, poll, delivered,
                   suppressor>>

NextGrade == GradeStats \/ GradePredictions

SpecGrade == InitGrade /\ [][NextGrade]_vars

----------------------------------------------------------------------------
(* The suppressor on its own: iou and non_max_suppression applied to lists  *)
(* of at most MaxBoxes predictions, and non_max_suppression applied again   *)
(* to what it returned.                                                     *)

MaxBoxes == 3

\* The predictions drawn: centres a few pixels apart on one row, so that
\* boxes overlap more or less; widths 0 (no area) and 7 pixels; equal and
\* different confidences; two classes.
BoxCentres == {Px(26), Px(30)}
BoxWidths == {0, Px(7)}
BoxHeight == Px(4)
Confidences == {80, 90}
Classes == {NormalClass, "Mold damage"}

Boxes ==
    {Pred(x, Px(10), w, BoxHeight, c, cl) :
        x \in BoxCentres, w \in BoxWidths, c \in Confidences, cl \in Classes}

\* Thresholds tnum / tden, the default 3/10 among them.
Thresholds ==
    {<<0, 1>>, <<1, 8>>, <<IouThresholdNum, IouThresholdDen>>, <<1, 2>>,
     <<1, 1>>, <<2, 1>>}

BoxLists == UNION {[1..n -> Boxes] : n \in 0..MaxBoxes}

InitSuppress ==
    /\ progress_store = EmptyStore
    /\ handed = {}
    /\ job = [j \in JobIds |-> NoJob]
    /\ frame = [j \in JobIds |-> NoFrame]
    /\ poll = [p \in Pollers |-> NoPoll]
    /\ delivered = [j \in JobIds |-> 0]
    /\ grader = NoGrader
    /\ \E predictions \in BoxLists, t \in Thresholds :
          suppressor = [pc |-> "input", predictions |-> predictions,
                        tnum |-> t[1], tden |-> t[2],
                        overlap |-> None, out |-> None, again |-> None]

\* iou applied to the corner tuples of the first two predictions drawn.
SuppressIou ==
    /\ suppressor.pc = "input"
    /\ Len(suppressor.predictions) >= 2
    /\ suppressor' = [suppressor EXCEPT
          !.pc = "measured",
          !.overlap = Some(iou(Corner(suppressor.predictions[1]),
                               Corner(suppressor.predictions[2])))]
    /\ UNCHANGED <<progress_store, handed, job, frame, poll, delivered, grader>>

\* non_max_suppression applied to the predictions drawn.
SuppressOnce ==
    /\ suppressor.pc = "input"
    /\ suppressor' = [suppressor EXCEPT
          !.pc = "once",
          !.out = Some(non_max_suppression(suppressor.predictions,
                                           suppressor.tnum, suppressor.tden))]
    /\ UNCHANGED <<progress_store, handed, job, frame, poll, delivered, grader>>

\* non_max_suppression applied to the list the first call returned.
SuppressAgain ==
    /\ suppressor.pc = "once"
    /\ Val(suppressor.out).ok
    /\ suppressor' = [suppressor EXCEPT
          !.pc = "twice",
          !.again = Some(non_max_suppression(Val(suppressor.out).predictions,
                                             suppressor.tnum, suppressor.tden))]
    /\ UNCHANGED <<progress_store, handed, job, frame, poll, delivered, grader>>

NextSuppress == SuppressIou \/ SuppressOnce \/ SuppressAgain

SpecSuppress == InitSuppress /\ [][NextSuppress]_vars

----------------------------------------------------------------------------
(* Properties of the job system (checked under Spec) *)

\* Some poll has read a completed snapshot of job id j.
CompletedObserved(j) ==
    \/ delivered[j] > 0
    \/ \E q \in Pollers :
          /\ poll[q].id = Some(j)
          /\ poll[q].data # None
          /\ Val(poll[q].data).status = "completed"

\* Poll p is about to answer 200 with a snapshot of the given status.
Answers(p, status) ==
    /\ poll[p].pc = "r200"
    /\ Val(poll[p].data).status = status

\* The thread of job j has ended.
Ended(j) == job[j].pc \in {"done", "died"}

\* C1: for every job id at most one poll is ever answered with a snapshot
\* whose status is completed.
C1_AtMostOneCompletedDelivery == \A j \in JobIds : delivered[j] <= 1

\* C2: a poll of an id that analyze has returned is never answered NotFound
\* before some poll has read the job's completed snapshot.
C2_HandedIdIsKnown ==
    \A p \in Pollers :
       poll[p].pc = "r404" => CompletedObserved(Val(poll[p].id))

\* C3: a poll that begins when the job's status is completed, with no other
\* poll in flight and no completed answer sent yet, reads the completed
\* snapshot (progress 100, result present) and has removed the entry when it
\* answers; a poll that begins after a completed snapshot of its id has been
\* returned is answered NotFound.
C3_SecondReadNotFound ==
    \A p \in Pollers :
       /\ Answers(p, "completed") =>
             /\ Val(poll[p].data).progress = 100
             /\ Val(poll[p].data).result # None
       /\ ( /\ poll[p].began_status = "completed"
            /\ delivered[Val(poll[p].id)] = 0
            /\ \A q \in Pollers \ {p} : poll[q].pc = "idle" ) =>
             /\ poll[p].pc \in {"l240", "l242", "l243", "r200"}
             /\ poll[p].data # None => Val(poll[p].data).status = "completed"
             /\ poll[p].pc = "r200" => ~Has(progress_store, Val(poll[p].id))
       /\ (poll[p].pc # "idle" /\ poll[p].began_delivered > 0) =>
             poll[p].pc = "r404"

\* The second of two polls that ran one after the other: the first was
\* answered with the completed snapshot, this one with NotFound.
C3_Witness ==
    \E p \in Pollers :
       /\ poll[p].pc = "r404"
       /\ poll[p].began_delivered = 1
       /\ delivered[Val(poll[p].id)] = 1

\* C4: a poll that begins when the job's status is error is answered with
\* the entry as it is, never removes it, and the entry of a job whose status
\* is error never changes again.
C4_ErrorEntryStays ==
    \A p \in Pollers :
       poll[p].began_status = "error" =>
          LET id == Val(poll[p].id)
          IN  /\ poll[p].pc \in {"l240", "l242", "r200"}
              /\ Has(progress_store, id)
              /\ progress_store[id].status = "error"
              /\ poll[p].data # None => Val(poll[p].data) = progress_store[id]

C4_ErrorEntryFrozen ==
    \A j \in JobIds :
       (Has(progress_store, j) /\ progress_store[j].status = "error") =>
          (Has(progress_store', j) /\ progress_store'[j] = progress_store[j])

\* C4: once a job's status is error, every poll of its id returns the same
\* snapshot and the entry stays in the store, unchanged.
C4_ErrorNeverRemoved == []C4_ErrorEntryStays /\ [][C4_ErrorEntryFrozen]_vars

\* Two polls, both begun after the status became error, hold the same
\* snapshot and the entry is still there.
C4_Witness ==
    \E p, q \in Pollers :
       /\ p # q
       /\ poll[p].began_status = "error" /\ poll[q].began_status = "error"
       /\ Answers(p, "error") /\ Answers(q, "error")
       /\ poll[p].data = poll[q].data
       /\ Has(progress_store, Val(poll[p].id))

\* C6 as claimed: the gateway is called at most twice per job; a second call
\* happens if and only if the first call failed with HTTP 413, and exactly
\* one compression with the 2 MB budget precedes it; another failure of the
\* first call causes no second call.
C6_RetryIffPayloadTooLarge ==
    \A j \in JobIds :
       /\ job[j].calls <= 2
       /\ job[j].calls = 2 =>
             (job[j].first_call = "413" /\ job[j].budgets = <<5, 2>>)
       /\ job[j].first_call \in {"ok", "other"} => job[j].calls = 1
       /\ (Ended(j) /\ job[j].first_call = "413") => job[j].calls = 2

\* C6 as amended: as above, but a first call that failed with HTTP 413 is
\* followed by the second call only when the compression with the 2 MB
\* budget did not itself raise.
C6_RetryOnlyOnPayloadTooLarge ==
    \A j \in JobIds :
       /\ job[j].calls <= 2
       /\ job[j].calls = 2 =>
             (job[j].first_call = "413" /\ job[j].budgets = <<5, 2>>)
       /\ job[j].first_call \in {"ok", "other"} => job[j].calls = 1
       /\ (Ended(j) /\ job[j].first_call = "413") =>
             \/ job[j].calls = 2
             \/ /\ job[j].calls = 1
                /\ job[j].budgets = <<5, 2>>
                /\ Val(job[j].failure).stage = "compress"

C6_Witness ==
    \E j \in JobIds :
       Ended(j) /\ job[j].calls = 2 /\ job[j].first_call = "413"

\* C7: a job in which a stage failed ends with status error, the message of
\* the failure (the fixed text after a second HTTP 413), no result, and the
\* progress its entry showed when the stage failed; after the failure the
\* thread only runs its error path.
C7_FailureRecorded ==
    \A j \in JobIds :
       job[j].failure # None =>
          LET f == Val(job[j].failure)
          IN  /\ job[j].pc \in {"l142", "l143", "l211", "l212", "done"}
              /\ job[j].pc = "done" =>
                    /\ Has(progress_store, j)
                    /\ progress_store[j].status = "error"
                    /\ progress_store[j].error =
                          Some(IF f.stage = "too_large"
                               THEN "Image too large after compression"
                               ELSE f.exc.msg)
                    /\ progress_store[j].result = None
                    /\ progress_store[j].progress = f.progress

C7_Witness ==
    \E j \in JobIds :
       /\ job[j].pc = "done"
       /\ job[j].failure # None
       /\ Val(job[j].failure).stage = "suppress"

\* C8: get_progress ends with 404 or with a snapshot, never with an
\* exception.
C8_PollNeverRaises == \A p \in Pollers : poll[p].pc # "r500"

----------------------------------------------------------------------------
(* Properties of compress_image (checked under SpecCompress) *)

\* C5: a call that returns has encoded at most 3 times, has written the
\* image to image_path and returns a size.
C5_AlwaysReturnsSize ==
    \A c \in JobIds :
       frame[c].pc = "ret" =>
          /\ frame[c].encodes <= 3
          /\ frame[c].persisted
          /\ frame[c].ret # None

----------------------------------------------------------------------------
(* Properties of the grader (checked under SpecGrade) *)

\* The sample of claim C9 has been graded.
C9_Sample ==
    /\ grader.pc = "graded"
    /\ grader.total_kernels = 200
    /\ grader.damage_pct = 4 * PctUnit
    /\ grader.heat_pct = 0

\* C9 as claimed: totalKernels=200, damagePct=4.0, heatPct=0.0 is graded
\* U.S. No. 1.
C9_LargeSampleNo1 == C9_Sample => grader.grade = Some("U.S. No. 1")

\* C9 as amended: totalKernels=200, damagePct=4.0, heatPct=0.0 is graded
\* U.S. No. 2.
C9_LargeSampleNo2 == C9_Sample => grader.grade = Some("U.S. No. 2")

C9_Witness == C9_Sample /\ grader.damage_kernels = 8 /\ grader.heat_kernels = 0

\* The predictions of claim C10 (96 Normal, 3 Mold damage, 1 Heat damage)
\* have been through the grading stage.
C10_Sample ==
    /\ grader.pc = "tallied"
    /\ Tally(grader.predictions) =
          [c \in {"Normal", "Mold damage", "Heat damage"} |->
              IF c = "Normal" THEN 96 ELSE IF c = "Mold damage" THEN 3 ELSE 1]

\* The sample of C10 has total_kernels 100 and total damage 4.0 percent and
\* is graded by its percentages (4.0 and 1.0), not by its counts (4 and 1).
C10_Stats(result) ==
    /\ result.total_kernels = 100
    /\ result.total_damage_pct = 4 * PctUnit
    /\ result.total_kernels >= 100
    /\ result.grade = FirstByPct(USDA_GRADES, 1, 4 * PctUnit, PctUnit)
    /\ result.grade # FirstByCount(USDA_GRADES, 1, 4, 1)

\* C10 as claimed: 96 Normal, 3 Mold damage and 1 Heat damage give
\* total_kernels 100, total damage 4.0 percent, the percentage path and
\* grade U.S. No. 1.
C10_EndToEndNo1 ==
    C10_Sample =>
       C10_Stats(Val(grader.result)) /\ Val(grader.result).grade = "U.S. No. 1"

\* C10 as amended: the same sample gives total_kernels 100, total damage 4.0
\* percent (heat damage 1.0 percent), the percentage path and grade
\* U.S. No. 4.
C10_EndToEndNo4 ==
    C10_Sample =>
       /\ C10_Stats(Val(grader.result))
       /\ Val(grader.result).heat_damage_pct = PctUnit
       /\ Val(grader.result).grade = "U.S. No. 4"

C10_Witness == C10_Sample /\ Val(grader.result).counts["Normal"] = 96

----------------------------------------------------------------------------
(* Properties of the suppressor (checked under SpecSuppress) *)

\* The prediction has no area.
ZeroArea(pred) == pred.width = 0 \/ pred.height = 0

\* Every prediction of the list has a positive area.
PositiveAreas(predictions) ==
    \A i \in 1..Len(predictions) : ~ZeroArea(predictions[i])

\* C11: iou of two boxes of which at least one has no area returns 0
\* (it does not divide by zero), and non_max_suppression returns normally
\* for every list drawn, lists with boxes of no area among them.
C11_ZeroAreaIouIsZero ==
    /\ ( /\ suppressor.pc = "measured"
         /\ \/ ZeroArea(suppressor.predictions[1])
            \/ ZeroArea(suppressor.predictions[2]) ) =>
          /\ Val(suppressor.overlap).ok
          /\ Val(suppressor.overlap).num = 0
    /\ suppressor.pc = "once" => Val(suppressor.out).ok

\* iou of two predictions in centre form is below the threshold tnum / tden.
Apart(predA, predB, tnum, tden) ==
    LET r == iou(Corner(predA), Corner(predB))
        iou_threshold == FDiv(tnum, tden)
    IN  r.ok /\ BelowThreshold(r, iou_threshold.num, iou_threshold.den)

\* C12: for predictions of positive area and every threshold, the list
\* non_max_suppression returns holds no two boxes (at different positions)
\* whose iou is greater than or equal to the threshold.
C12_KeptBoxesApart ==
    (suppressor.pc = "once" /\ PositiveAreas(suppressor.predictions)) =>
       /\ Val(suppressor.out).ok
       /\ LET kept == Val(suppressor.out).predictions
          IN  \A i, k \in 1..Len(kept) :
                 i # k => Apart(kept[i], kept[k], suppressor.tnum, suppressor.tden)

\* C13: for predictions of positive area, non_max_suppression applied to
\* the list it returned returns that same list, element by element.
C13_Idempotent ==
    (suppressor.pc = "twice" /\ PositiveAreas(suppressor.predictions)) =>
       /\ Val(suppressor.again).ok
       /\ Val(suppressor.again).predictions = Val(suppressor.out).predictions

----------------------------------------------------------------------------
(* Further properties of the job system (checked under Spec) *)

TerminalStatuses == {"completed", "error"}

\* The entry of job j exists and has a terminal status.
Terminal(j) ==
    Has(progress_store, j) /\ progress_store[j].status \in TerminalStatuses

\* In every state: a status is one of the three, and a terminal status is
\* there only when the thread has ended.
C14_TerminalMeansEnded ==
    \A j \in JobIds :
       Has(progress_store, j) =>
          /\ progress_store[j].status \in {"processing"} \cup TerminalStatuses
          /\ Terminal(j) => job[j].pc = "done"

\* In every step: an entry is created once, by the thread's first statement,
\* with status processing; a status changes only from processing to a
\* terminal one; an entry with a terminal status is not written again; and
\* an entry is removed only with status completed, by a poll that read
\* completed.
C14_Step ==
    \A j \in JobIds :
       /\ (~Has(progress_store, j) /\ Has(progress_store', j)) =>
             /\ job[j].pc = "l125"
             /\ progress_store'[j].status = "processing"
       /\ (Has(progress_store, j) /\ Has(progress_store', j)) =>
             /\ progress_store'[j].status # progress_store[j].status =>
                   /\ progress_store[j].status = "processing"
                   /\ progress_store'[j].status \in TerminalStatuses
             /\ Terminal(j) => progress_store'[j] = progress_store[j]
       /\ (Has(progress_store, j) /\ ~Has(progress_store', j)) =>
             /\ progress_store[j].status = "completed"
             /\ \E p \in Pollers :
                   /\ poll[p].pc = "l243" /\ poll'[p].pc = "r200"
                   /\ poll[p].id = Some(j)
                   /\ Val(poll[p].data).status = "completed"

\* C14: a job's entry starts with status processing, its status changes at
\* most once, only to completed or to error, and after that the runner
\* never writes the entry again; the only later change is the removal by a
\* poll that read completed.
C14_OneWayStatus == []C14_TerminalMeansEnded /\ [][C14_Step]_vars

\* The job ran to completed and a poll that read completed removed its entry.
C14_Witness ==
    \E j \in JobIds :
       /\ job[j].pc = "done"
       /\ job[j].failure = None
       /\ ~Has(progress_store, j)
       /\ delivered[j] = 1

\* In every step the progress of an entry stays within 0..100 and does not
\* decrease.
C15_Step ==
    \A j \in JobIds :
       (Has(progress_store, j) /\ Has(progress_store', j)) =>
          /\ progress_store'[j].progress \in 0..100
          /\ progress_store'[j].progress >= progress_store[j].progress

\* C15: over a job's lifetime, a run through the compress and infer retry
\* after HTTP 413 included, the progress values written to its entry never
\* decrease and stay within 0..100.
C15_ProgressMonotonic == [][C15_Step]_vars

----------------------------------------------------------------------------
(* Termination (checked under SpecFair) *)

\* C16: every job whose thread has been started eventually has status
\* completed or error in the store, whatever the pollers do.
C16_EventuallyTerminal ==
    \A j \in JobIds : (job[j].pc = "l125") ~> Terminal(j)

\* A job that went through the retry and three attempts of the second
\* compression has ended with a terminal status.
C16_Witness ==
    \E j \in JobIds :
       /\ job[j].pc = "done"
       /\ Terminal(j)
       /\ job[j].calls = 2
       /\ \A p \in Pollers : poll[p].pc = "idle"
       /\ delivered[j] = 0

----------------------------------------------------------------------------
(* Stage order and snapshots (checked under Spec) *)

\* s is a prefix of t.
IsPrefix(s, t) == Len(s) <= Len(t) /\ s = SubSeq(t, 1, Len(s))

\* The stages of a job without and with the retry after HTTP 413.
StagesDirect ==
    <<"compress", "infer", "suppress", "grade", "annotate", "persist">>
StagesRetried == <<"compress", "infer">> \o StagesDirect

----------------------------------------------------------------------------
(* Further properties of the grader (checked under SpecGrade) *)

\* The statistics g satisfy the rule: by the counts and the small-sample
\* columns below 100 kernels, by the percentages and the percentage columns
\* from 100 kernels on.
Satisfies(g, rule) ==
    IF g.total_kernels < 100
    THEN g.damage_kernels <= rule[3] /\ g.heat_kernels <= rule[5]
    ELSE g.damage_pct <= rule[2] /\ g.heat_pct <= rule[4]

\* C18: classify_grade returns the name of the first rule of the table that
\* the statistics satisfy on the path their total selects, and Sample Grade
\* exactly when they satisfy none; 50 kernels with 1 damaged and none heat
\* damaged are U.S. No. 1.
C18_FirstMatchOnSelectedPath ==
    grader.pc = "graded" =>
       LET sat == {i \in 1..Len(USDA_GRADES) : Satisfies(grader, USDA_GRADES[i])}
           grade == Val(grader.grade)
       IN  /\ sat # {} =>
                  \E i \in sat :
                     /\ \A k \in sat : i <= k
                     /\ grade = USDA_GRADES[i][1]
           /\ (grade = "Sample Grade") <=> (sat = {})
           /\ ( /\ grader.total_kernels = 50
                /\ grader.damage_kernels = 1
                /\ grader.heat_kernels = 0 ) => grade = "U.S. No. 1"

\* The example of C18, with percentages that no rule allows.
C18_Witness ==
    /\ grader.pc = "graded"
    /\ grader.total_kernels = 50
    /\ grader.damage_kernels = 1
    /\ grader.heat_kernels = 0
    /\ grader.damage_pct = 15 * PctUnit + 1
    /\ grader.grade = Some("U.S. No. 1")

----------------------------------------------------------------------------
(* Further properties of the suppressor (checked under SpecSuppress) *)

\* Input position a comes before input position b in the order of line 50:
\* by higher confidence, or by input order when the confidences are equal.
Precedes(predictions, a, b) ==
    \/ predictions[a].confidence > predictions[b].confidence
    \/ /\ predictions[a].confidence = predictions[b].confidence
       /\ a < b

\* kept is a selection of predictions, listed in the order of line 50, and
\* every prediction not selected has an iou that is not below the threshold
\* with a selected one that precedes it.  from[i] is the input position of
\* kept[i].
GreedySelection(predictions, kept, tnum, tden) ==
    \E from \in [1..Len(kept) -> 1..Len(predictions)] :
       /\ \A i \in 1..Len(kept) : kept[i] = predictions[from[i]]
       /\ \A i, k \in 1..Len(kept) :
             i < k => Precedes(predictions, from[i], from[k])
       /\ \A n \in 1..Len(predictions) :
             (\A i \in 1..Len(kept) : from[i] # n) =>
                \E i \in 1..Len(kept) :
                   /\ Precedes(predictions, from[i], n)
                   /\ ~Apart(predictions[n], kept[i], tnum, tden)

\* C19: for predictions of positive area and every threshold, the list
\* non_max_suppression returns is a subset of the input in descending
\* confidence, ties in input order, and every input not returned has an iou
\* greater than or equal to the threshold with a returned detection that
\* precedes it, whatever the classes are.
C19_GreedyCoverage ==
    (suppressor.pc = "once" /\ PositiveAreas(suppressor.predictions)) =>
       /\ Val(suppressor.out).ok
       /\ GreedySelection(suppressor.predictions,
                          Val(suppressor.out).predictions,
                          suppressor.tnum, suppressor.tden)

----------------------------------------------------------------------------
(* Snapshots of terminal jobs (checked under Spec) *)

\* C20: every snapshot a poll has copied with status completed has progress
\* 100, a result and no error, and every snapshot copied with status error
\* has an error message and no result, however the runner and the polls
\* interleave.
C20_TerminalSnapshotsConsistent ==
    \A p \in Pollers :
       poll[p].data # None =>
          LET data == Val(poll[p].data)
          IN /\ data.status = "completed" =>
                   /\ data.progress = 100
                   /\ data.result # None
                   /\ data.error = None
             /\ data.status = "error" =>
                   /\ data.error # None
                   /\ data.result = None

\* One poll answers with the completed snapshot while another still holds a
\* snapshot it copied after line 206 and before line 208: status processing
\* with the result already stored.
C20_Witness ==
    \E p, q \in Pollers :
       /\ Answers(p, "completed")
       /\ poll[q].data # None
       /\ Val(poll[q].data).status = "processing"
       /\ Val(poll[q].data).result # None

====
